---- MODULE Spec2Model ----
(***************************************************************************)
(* Model of the polyconstruct elasticity kernel:                           *)
(*   src/polyengine/gridutils.py      Cell, DataCell, Grid                 *)
(*   src/polyengine/metricutils.py    Vector2                              *)
(*   src/polyengine/diffequations.py  Tensor, the finite-difference        *)
(*                                    operators and LinearElasticityPDE    *)
(*   src/main.py                      the column ranges and the step loop  *)
(*                                                                         *)
(* Python floats are modelled as exact rationals [n, d] in lowest terms,   *)
(* so a formula that divides by dx differs from one that divides by 2*dx,  *)
(* and (2/3)*mu is the rational 2*mu/3.  An exception raised by the code   *)
(* is modelled as a result whose err field names the exception.            *)
(***************************************************************************)
EXTENDS Integers, Sequences, FiniteSets, TLC

VARIABLES
    sgrid,      \* Grid[DataCell[float]] handed to partial_derivative
    tgrid,      \* Grid[DataCell[Tensor]] handed to tensor_divergence
    dx,         \* spatial step
    result,     \* what the last operator call returned (or raised)
    cells_wide, \* main.py: int(LENGTH/DX), the number of columns
    processes,  \* main.py: PROCESSES, the number of workers
    ranges,     \* main.py: the list of column ranges built so far
    \* LinearElasticityPDE
    material_dist, external_force_field,
    stresses, strains, displacements, velocities,
    dt, current_time,
    \* the caller of the solver
    PARALLEL_PROCESS,   \* main.py: the configuration flag
    pc,         \* "idle", inside "step" (step()) or inside "run" (an iteration of main.run)
    todo,       \* the statements of step() / of the iteration still to run
    log,        \* the phase updates run so far by the current step() / iteration
    err,        \* "none", or the exception that ended the program
    last,       \* the last call made to the solver
    pre,        \* the four evolving grids as they were before that call
    entry,      \* ... and as they were when the current step() / iteration was entered
    ops         \* number of top-level calls completed

operatorVars == <<sgrid, tgrid, result>>
driverVars == <<cells_wide, processes, ranges>>
inputVars == <<material_dist, external_force_field, dt, PARALLEL_PROCESS>>
gridVars == <<stresses, strains, displacements, velocities>>
controlVars == <<current_time, pc, todo, log, err, last, pre, entry, ops>>
solverVars == <<inputVars, gridVars, controlVars>>

vars == <<operatorVars, driverVars, dx, solverVars>>

----------------------------------------------------------------------------
(* Bounds of the model *)

MaxDim == 3     \* grids have 1..MaxDim columns and 1..MaxDim rows
MaxVal == 2     \* coefficients of the sampled fields lie in 0..MaxVal
MaxCols == 9    \* the range builder is run for 1..MaxCols columns
MaxProcs == 6   \* ... and 1..MaxProcs workers
MaxAmp == 1     \* the sampled solver fields are scaled by 0..MaxAmp
MaxOps == 1     \* top-level calls made to one solver

\* the driver's own configuration
PROCESSES == 36
DriverCellsWide == 150    \* int(LENGTH/DX) with LENGTH = 3, DX = 0.02

Dims == 1..MaxDim
DxValues == {1, 2}
Directions == {"x", "y", "z"}    \* "z" is not a recognised axis

----------------------------------------------------------------------------
(* Numbers: Python floats as exact rationals *)

Abs(a) == IF a < 0 THEN -a ELSE a

RECURSIVE GCD(_, _)
GCD(a, b) == IF b = 0 THEN a ELSE GCD(b, a % b)

Rat(n, d) ==
    LET g == GCD(Abs(n), Abs(d))
        s == IF d < 0 THEN -1 ELSE 1
    IN  [n |-> (s * n) \div g, d |-> (s * d) \div g]

R(i) == [n |-> i, d |-> 1]
RAdd(a, b) == Rat(a.n * b.d + b.n * a.d, a.d * b.d)
RNeg(a) == [n |-> -a.n, d |-> a.d]
RSub(a, b) == Rat(a.n * b.d - b.n * a.d, a.d * b.d)
RMul(a, b) == Rat(a.n * b.n, a.d * b.d)
RDiv(a, b) == Rat(a.n * b.d, a.d * b.n)
RZero == R(0)
RHalf == Rat(1, 2)

----------------------------------------------------------------------------
(* Results of calls that may raise *)

Ok(v) == [err |-> "none", val |-> v]
Raise(e) == [err |-> e, val |-> RZero]

----------------------------------------------------------------------------
(* gridutils.py *)

None == [none |-> TRUE]

DataCell(x, y, data) == [x |-> x, y |-> y, data |-> data]

\* Grid(columns, rows, DataCell, ...): cells[i][j] is the cell built with
\* position (j, i); data[j, i] is the payload that cell ends up with.
Grid(columns, rows, data) ==
    [cells |-> [i \in 0..(rows - 1) |->
                   [j \in 0..(columns - 1) |-> DataCell(j, i, data[j, i])]],
     row_end |-> rows - 1,
     column_end |-> columns - 1]

get_row(grid, row) == grid.cells[row]

get_column(grid, column) == [r \in DOMAIN grid.cells |-> grid.cells[r][column]]

Len0(f) == Cardinality(DOMAIN f)

\* get_cell indexing the lists as Python does, a negative index counting from
\* the end (only the upper bounds are checked)
get_cell_wrapping(grid, column, row) ==
    IF row \notin (-Len0(get_column(grid, 0)))..(Len0(get_column(grid, 0)) - 1)
          \/ column \notin (-Len0(get_row(grid, 0)))..(Len0(get_row(grid, 0)) - 1)
    THEN None
    ELSE grid.cells[IF row < 0 THEN row + Len0(get_column(grid, 0)) ELSE row]
                   [IF column < 0 THEN column + Len0(get_row(grid, 0)) ELSE column]

get_cell(grid, column, row) ==
    IF row \notin 0..(Len0(get_column(grid, 0)) - 1)
          \/ column \notin 0..(Len0(get_row(grid, 0)) - 1)
    THEN None
    ELSE grid.cells[row][column]

\* the call get_cell(column, row) with the exceptions of get_column(0):
\* [r[0] for r in self.cells] raises IndexError on rows that are empty
get_cell_call(grid, column, row) ==
    IF DOMAIN grid.cells = {} THEN Ok(None)
    ELSE IF \E r \in DOMAIN grid.cells : DOMAIN grid.cells[r] = {}
    THEN Raise("IndexError")
    ELSE Ok(get_cell(grid, column, row))

\* list[k] on a list of length n: k is a valid index
ValidIndex(k, n) == -n <= k /\ k < n

\* list[k] on a list of length n: the position it denotes
PyIndex(k, n) == IF k < 0 THEN n + k ELSE k

\* r = copy.copy(self.cells[column]); r[row] = cell; self.cells[column] = r
replace_cell(grid, column, row, cell) ==
    IF ~ValidIndex(column, Len0(grid.cells)) THEN Raise("IndexError")
    ELSE IF ~ValidIndex(row, Len0(grid.cells[PyIndex(column, Len0(grid.cells))]))
    THEN Raise("IndexError")
    ELSE Ok([grid EXCEPT
               !.cells[PyIndex(column, Len0(grid.cells))]
                      [PyIndex(row, Len0(grid.cells[PyIndex(column, Len0(grid.cells))]))]
                   = cell])

\* get_neighbors calling local_grid.replace_cell(i, j, c)
get_neighbors_transposed(grid, column, row) ==
    [cells |-> [i \in 0..2 |->
                   [j \in 0..2 |-> get_cell(grid, column + i - 1, row + j - 1)]],
     row_end |-> 2,
     column_end |-> 2]

get_neighbors(grid, column, row) ==
    [cells |-> [j \in 0..2 |->
                   [i \in 0..2 |-> get_cell(grid, column + i - 1, row + j - 1)]],
     row_end |-> 2,
     column_end |-> 2]

----------------------------------------------------------------------------
(* metricutils.py: Vector2 *)

Vector2(x, y) == [x |-> x, y |-> y]
VZero == Vector2(RZero, RZero)
\* Vector2.__add__
VAdd(a, b) == Vector2(RAdd(a.x, b.x), RAdd(a.y, b.y))
\* Vector2.__mul__ with a number
VScale(a, k) == Vector2(RMul(a.x, k), RMul(a.y, k))

----------------------------------------------------------------------------
(* diffequations.py: Tensor *)

Tensor(xx, xy, yx, yy) == [xx |-> xx, xy |-> xy, yx |-> yx, yy |-> yy]
\* Tensor.__add__
TAdd(a, b) == Tensor(RAdd(a.xx, b.xx), RAdd(a.xy, b.xy), RAdd(a.yx, b.yx), RAdd(a.yy, b.yy))
\* Tensor.__mul__ / __rmul__ with a number
TScale(a, k) == Tensor(RMul(a.xx, k), RMul(a.xy, k), RMul(a.yx, k), RMul(a.yy, k))
transpose(a) == Tensor(a.xx, a.yx, a.xy, a.yy)
trace(a) == RAdd(a.xx, a.yy)
identity == Tensor(R(1), R(0), R(0), R(1))
zero == Tensor(R(0), R(0), R(0), R(0))

----------------------------------------------------------------------------
(* diffequations.py: finite-difference operators *)

\* (a.data - b.data) / dx, raising AttributeError when a or b is None
Quotient(a, b, h) ==
    IF a = None \/ b = None
    THEN Raise("AttributeError")
    ELSE Ok(RDiv(RSub(a.data, b.data), h))

\* partial_derivative with the 'x' edge test made against row_end
partial_derivative_row_end(grid, h, x_index, y_index, direction) ==
    LET neighborhood == get_neighbors(grid, x_index, y_index)
        n(i, j) == get_cell(neighborhood, i, j)
    IN  CASE direction = "x" ->
                IF x_index = 0 THEN Quotient(n(2, 1), n(1, 1), h)
                ELSE IF x_index = grid.row_end THEN Quotient(n(1, 1), n(0, 1), h)
                ELSE Quotient(n(2, 1), n(0, 1), h)
          [] direction = "y" ->
                IF y_index = 0 THEN Quotient(n(1, 2), n(1, 1), h)
                ELSE IF y_index = grid.row_end THEN Quotient(n(1, 1), n(1, 0), h)
                ELSE Quotient(n(1, 2), n(1, 0), h)
          [] OTHER -> Raise("ValueError")

partial_derivative(grid, h, x_index, y_index, direction) ==
    LET neighborhood == get_neighbors(grid, x_index, y_index)
        n(i, j) == get_cell(neighborhood, i, j)
    IN  CASE direction = "x" ->
                IF x_index = 0 THEN Quotient(n(2, 1), n(1, 1), h)
                ELSE IF x_index = grid.column_end THEN Quotient(n(1, 1), n(0, 1), h)
                ELSE Quotient(n(2, 1), n(0, 1), h)
          [] direction = "y" ->
                IF y_index = 0 THEN Quotient(n(1, 2), n(1, 1), h)
                ELSE IF y_index = grid.row_end THEN Quotient(n(1, 1), n(1, 0), h)
                ELSE Quotient(n(1, 2), n(1, 0), h)
          [] OTHER -> Raise("ValueError")

\* the grid gx (component = "x") or gy (component = "y") of vector_gradient
ComponentGrid(grid, component) ==
    Grid(grid.column_end + 1, grid.row_end + 1,
         [x \in 0..grid.column_end, y \in 0..grid.row_end |->
             IF component = "x" THEN get_cell(grid, x, y).data.x
             ELSE get_cell(grid, x, y).data.y])

\* Tensor(pxx, pxy, pyx, pyy), unless one of the four derivatives raised
TensorOf(pxx, pxy, pyx, pyy) ==
    IF pxx.err # "none" THEN Raise(pxx.err)
    ELSE IF pxy.err # "none" THEN Raise(pxy.err)
    ELSE IF pyx.err # "none" THEN Raise(pyx.err)
    ELSE IF pyy.err # "none" THEN Raise(pyy.err)
    ELSE Ok(Tensor(pxx.val, pxy.val, pyx.val, pyy.val))

\* g.trace, unless computing g raised
TraceOf(g) == IF g.err # "none" THEN Raise(g.err) ELSE Ok(trace(g.val))

\* Vector2(div_x, div_y), unless one of the two divergences raised
Vector2Of(div_x, div_y) ==
    IF div_x.err # "none" THEN Raise(div_x.err)
    ELSE IF div_y.err # "none" THEN Raise(div_y.err)
    ELSE Ok(Vector2(div_x.val, div_y.val))

vector_gradient(grid, h, x_index, y_index) ==
    LET gx == ComponentGrid(grid, "x")
        gy == ComponentGrid(grid, "y")
        pxx == partial_derivative(gx, h, x_index, y_index, "x")
        pxy == partial_derivative(gx, h, x_index, y_index, "y")
        pyx == partial_derivative(gy, h, x_index, y_index, "x")
        pyy == partial_derivative(gy, h, x_index, y_index, "y")
    IN  TensorOf(pxx, pxy, pyx, pyy)

vector_divergence(grid, h, x_index, y_index) ==
    TraceOf(vector_gradient(grid, h, x_index, y_index))

\* the grids gx = (xx, yx) and gy = (xy, yy) of tensor_divergence
TensorPartGrid(grid, part) ==
    Grid(grid.column_end + 1, grid.row_end + 1,
         [x \in 0..grid.column_end, y \in 0..grid.row_end |->
             IF part = "x"
             THEN Vector2(get_cell(grid, x, y).data.xx, get_cell(grid, x, y).data.yx)
             ELSE Vector2(get_cell(grid, x, y).data.xy, get_cell(grid, x, y).data.yy)])

tensor_divergence(grid, h, x_index, y_index) ==
    LET gx == TensorPartGrid(grid, "x")
        gy == TensorPartGrid(grid, "y")
        div_x == vector_divergence(gx, h, x_index, y_index)
        div_y == vector_divergence(gy, h, x_index, y_index)
    IN  Vector2Of(div_x, div_y)

----------------------------------------------------------------------------
(* diffequations.py: LinearElasticityPDE *)

Material(density, yield_strength, bulk_modulus, shear_modulus) ==
    [density |-> density, yield_strength |-> yield_strength,
     bulk_modulus |-> bulk_modulus, shear_modulus |-> shear_modulus]

get_material(i, j) == get_cell(material_dist, i, j).data

get_external_force(i, j) == get_cell(external_force_field, i, j).data

\* get_u_double_dot multiplying by the density instead of its reciprocal
AccelerationOf_times_density(div, force, density) ==
    IF div.err # "none" THEN Raise(div.err)
    ELSE Ok(VScale(VAdd(div.val, force), density))

\* (div + force) * (1/density), unless computing div raised
AccelerationOf(div, force, density) ==
    IF div.err # "none" THEN Raise(div.err)
    ELSE Ok(VScale(VAdd(div.val, force), RDiv(R(1), density)))

\* get_u_double_dot whose zero-density branch returns the force on the cell
get_u_double_dot_void_gets_force(i, j) ==
    IF get_material(i, j).density = RZero
    THEN Ok(get_external_force(i, j))
    ELSE AccelerationOf(tensor_divergence(stresses, dx, i, j),
                        get_external_force(i, j), get_material(i, j).density)

get_u_double_dot(i, j) ==
    IF get_material(i, j).density = RZero       \* "if not ... density"
    THEN Ok(VZero)
    ELSE AccelerationOf(tensor_divergence(stresses, dx, i, j),
                        get_external_force(i, j), get_material(i, j).density)

\* get_u_dot reading the cell one column to the left (an index off by one)
get_u_dot_left_neighbour(i, j) ==
    IF i > 0 THEN get_cell(velocities, i - 1, j).data ELSE get_cell(velocities, i, j).data

get_u_dot(i, j) == get_cell(velocities, i, j).data

\* get_strain returning grad_u itself, the symmetrisation left out
SymmetricPart_gradient_only(grad_u) ==
    IF grad_u.err # "none" THEN Raise(grad_u.err) ELSE Ok(grad_u.val)

\* 0.5*(grad_u + grad_u.transpose), unless computing grad_u raised
SymmetricPart(grad_u) ==
    IF grad_u.err # "none" THEN Raise(grad_u.err)
    ELSE Ok(TScale(TAdd(grad_u.val, transpose(grad_u.val)), RHalf))

get_strain(i, j) == SymmetricPart(vector_gradient(displacements, dx, i, j))

\* get_stress with the factor strain_trace left out of the second term
StressOf_without_trace(strain, lame_coefficient_1, bulk_modulus) ==
    IF strain.err # "none" THEN Raise(strain.err)
    ELSE Ok(TAdd(TScale(strain.val, RMul(R(2), lame_coefficient_1)),
                 TScale(identity,
                        RSub(bulk_modulus, RMul(Rat(2, 3), lame_coefficient_1)))))

\* 2*lame_coefficient_1*strain + lame_coefficient_2*strain_trace*Tensor.identity()
StressOf(strain, lame_coefficient_1, bulk_modulus) ==
    IF strain.err # "none" THEN Raise(strain.err)
    ELSE Ok(TAdd(TScale(strain.val, RMul(R(2), lame_coefficient_1)),
                 TScale(identity,
                        RMul(RSub(bulk_modulus, RMul(Rat(2, 3), lame_coefficient_1)),
                             trace(strain.val)))))

get_stress(i, j) ==
    StressOf(get_strain(i, j), get_material(i, j).shear_modulus,
             get_material(i, j).bulk_modulus)

\* cell.data += delta * k, unless computing delta raised
\* the increment added whole, the time step forgotten
AddScaled_unscaled(data, delta, k) ==
    IF delta.err # "none" THEN Raise(delta.err)
    ELSE Ok(VAdd(data, delta.val))

\* data + delta * k, unless computing delta raised
AddScaled(data, delta, k) ==
    IF delta.err # "none" THEN Raise(delta.err)
    ELSE Ok(VAdd(data, VScale(delta.val, k)))

Positions(grid) == {<<i, j>> \in (DOMAIN grid.cells) \X (0..grid.column_end) : TRUE}

\* the rank of cells[i][j] in "for column in grid.cells: for cell in column"
Visit(grid, i, j) == i * (grid.column_end + 1) + j

\* the first cell, in visiting order, whose new payload raises (<<>> if none does)
FirstRaise(grid, value) ==
    LET bad == {p \in Positions(grid) : value[p].err # "none"}
    IN  IF bad = {} THEN <<>>
        ELSE CHOOSE p \in bad :
                \A q \in bad : Visit(grid, p[1], p[2]) <= Visit(grid, q[1], q[2])

\* the loop "for column in grid.cells: for cell in column: cell.data = value":
\* the cells visited before the first raise hold their new payload
Assigned(grid, value, stop) ==
    [grid EXCEPT !.cells =
        [i \in DOMAIN grid.cells |->
            [j \in DOMAIN grid.cells[i] |->
                IF stop = <<>> \/ Visit(grid, i, j) < Visit(grid, stop[1], stop[2])
                THEN [grid.cells[i][j] EXCEPT !.data = value[<<i, j>>].val]
                ELSE grid.cells[i][j]]]]

ForEachCell(target, grid, value, stop) ==
    [target |-> target,
     grid |-> Assigned(grid, value, stop),
     err |-> IF stop = <<>> THEN "none" ELSE value[stop].err]

update_u ==
    LET value == [p \in Positions(velocities) |->
                    AddScaled(velocities.cells[p[1]][p[2]].data,
                              Ok(get_u_dot(velocities.cells[p[1]][p[2]].x,
                                           velocities.cells[p[1]][p[2]].y)), dt)]
    IN  ForEachCell("velocities", velocities, value, FirstRaise(velocities, value))

update_u_dot ==
    LET value == [p \in Positions(velocities) |->
                    AddScaled(velocities.cells[p[1]][p[2]].data,
                              get_u_double_dot(velocities.cells[p[1]][p[2]].x,
                                               velocities.cells[p[1]][p[2]].y), dt)]
    IN  ForEachCell("velocities", velocities, value, FirstRaise(velocities, value))

update_strain ==
    LET value == [p \in Positions(strains) |->
                    get_strain(strains.cells[p[1]][p[2]].x, strains.cells[p[1]][p[2]].y)]
    IN  ForEachCell("strains", strains, value, FirstRaise(strains, value))

update_stress ==
    LET value == [p \in Positions(strains) |->
                    get_stress(strains.cells[p[1]][p[2]].x, strains.cells[p[1]][p[2]].y)]
    IN  ForEachCell("strains", strains, value, FirstRaise(strains, value))

\* the statements of step(), diffequations.py lines 255-258
step_body == <<"update_u_dot", "update_u", "update_strain", "update_stress">>

\* the phase updates of one iteration of the loop of main.run, lines 71-88
run_body == <<"update_u", "update_u_dot", "update_strain", "update_stress">>

\* the phases main.run hands to Pool.map when PARALLEL_PROCESS is set
ParallelPhases == {"update_u_dot", "update_strain"}

\* the parameters besides self of "def <name>(self)"
Parameters(name) == <<>>

\* the exception raised by binding args to the parameters of a method
BindArguments(name, args) ==
    IF Len(args) = Len(Parameters(name)) THEN "none" ELSE "TypeError"

----------------------------------------------------------------------------
(* main.py: the column ranges *)

\* int(j*cells_wide/PROCESSES) with the integer part taken before the product
RangeBound_divide_first(j, w, n) == j * (w \div n)

\* int(j*cells_wide/PROCESSES) for j, cells_wide >= 0 and PROCESSES > 0
RangeBound(j, w, n) == (j * w) \div n

\* range(a, b)
range(a, b) == [start |-> a, stop |-> b]
InRange(c, r) == r.start <= c /\ c < r.stop

----------------------------------------------------------------------------
(* Sampled inputs *)

\* f(x, y) = a*x + b*y, plus c at the cell (px, py)
ScalarField(a, b, c, px, py) ==
    [x \in 0..(MaxDim - 1), y \in 0..(MaxDim - 1) |->
        R(a * x + b * y + (IF x = px /\ y = py THEN c ELSE 0))]

----------------------------------------------------------------------------
(* Specification SpecDeriv: partial_derivative applied to sampled grids *)

NoResult == [op |-> "none", x |-> 0, y |-> 0, direction |-> "", err |-> "none",
             val |-> RZero]

EmptyGrid == [cells |-> <<>>, row_end |-> -1, column_end |-> -1]

\* the driver variables of a specification that does not run the driver
NoDriver == cells_wide = 0 /\ processes = 0 /\ ranges = <<>>

NoCall == [op |-> "none", task |-> FALSE, r |-> range(0, 0)]

\* the solver variables of a specification that builds no solver
NoSolver ==
    /\ material_dist = EmptyGrid /\ external_force_field = EmptyGrid
    /\ stresses = EmptyGrid /\ strains = EmptyGrid
    /\ displacements = EmptyGrid /\ velocities = EmptyGrid
    /\ dt = RZero /\ current_time = RZero /\ PARALLEL_PROCESS = FALSE
    /\ pc = "idle" /\ todo = <<>> /\ log = <<>> /\ err = "none"
    /\ last = NoCall /\ pre = <<>> /\ entry = <<>> /\ ops = 0

InitDeriv ==
    /\ \E columns \in Dims, rows \in Dims, a \in 0..MaxVal, b \in 0..MaxVal,
          c \in {0, 1}, px \in 0..(MaxDim - 1), py \in 0..(MaxDim - 1) :
          /\ px < columns /\ py < rows
          /\ sgrid = Grid(columns, rows, ScalarField(a, b, c, px, py))
    /\ tgrid = EmptyGrid
    /\ dx \in {R(h) : h \in DxValues}
    /\ result = NoResult
    /\ NoDriver
    /\ NoSolver

CallPartialDerivative(x, y, direction) ==
    /\ result' = LET r == partial_derivative(sgrid, dx, x, y, direction)
                 IN  [op |-> "partial_derivative", x |-> x, y |-> y,
                      direction |-> direction, err |-> r.err, val |-> r.val]
    /\ UNCHANGED <<sgrid, tgrid, dx, driverVars, solverVars>>

NextDeriv ==
    \E x \in 0..sgrid.column_end, y \in 0..sgrid.row_end, direction \in Directions :
        CallPartialDerivative(x, y, direction)

SpecDeriv == InitDeriv /\ [][NextDeriv]_vars

----------------------------------------------------------------------------
(* Specification SpecDiv: tensor_divergence applied to sampled tensor grids *)

\* xx = a*x + y, xy = b*y + x, yx = c*y + x, yy = a*y + b*x: symmetric iff b = c
TensorField(a, b, c) ==
    [x \in 0..(MaxDim - 1), y \in 0..(MaxDim - 1) |->
        Tensor(R(a * x + y), R(b * y + x), R(c * y + x), R(a * y + b * x))]

InitDiv ==
    /\ \E columns \in Dims, rows \in Dims, a \in 0..MaxVal, b \in 0..MaxVal,
          c \in 0..MaxVal :
          tgrid = Grid(columns, rows, TensorField(a, b, c))
    /\ sgrid = EmptyGrid
    /\ dx \in {R(h) : h \in DxValues}
    /\ result = NoResult
    /\ NoDriver
    /\ NoSolver

CallTensorDivergence(x, y) ==
    /\ result' = LET r == tensor_divergence(tgrid, dx, x, y)
                 IN  [op |-> "tensor_divergence", x |-> x, y |-> y,
                      direction |-> "", err |-> r.err, val |-> r.val]
    /\ UNCHANGED <<sgrid, tgrid, dx, driverVars, solverVars>>

NextDiv ==
    \E x \in 0..tgrid.column_end, y \in 0..tgrid.row_end : CallTensorDivergence(x, y)

SpecDiv == InitDiv /\ [][NextDiv]_vars

----------------------------------------------------------------------------
(* Specification SpecRanges: the loop of main.py lines 21-25 *)

InitRanges ==
    /\ \/ cells_wide \in 1..MaxCols /\ processes \in 1..MaxProcs
       \/ cells_wide = DriverCellsWide /\ processes = PROCESSES
    /\ ranges = <<>>
    /\ sgrid = EmptyGrid /\ tgrid = EmptyGrid /\ dx = R(1) /\ result = NoResult
    /\ NoSolver

\* one iteration of "for j in range(PROCESSES)"
AppendRange ==
    /\ Len(ranges) < processes
    /\ LET j == Len(ranges)
           r == range(RangeBound(j, cells_wide, processes),
                      RangeBound(j + 1, cells_wide, processes))
       IN  ranges' = Append(ranges, r)
    /\ UNCHANGED <<operatorVars, dx, cells_wide, processes, solverVars>>

NextRanges == AppendRange

SpecRanges == InitRanges /\ [][NextRanges]_vars

----------------------------------------------------------------------------
(* Specification Spec: a LinearElasticityPDE and its callers *)

\* materials, scaled down from main.py's air and steel; "odd" has a negative density
air == Material(R(0), R(0), R(0), R(0))
steel == Material(R(2), R(1), R(3), R(1))
odd == Material(R(-1), R(0), R(1), R(2))

MaterialLayouts == {"solid", "mixed"}
MaterialField(layout) ==
    [x \in 0..(MaxDim - 1), y \in 0..(MaxDim - 1) |->
        IF layout = "solid" THEN steel
        ELSE IF y = 0 THEN air
        ELSE IF x = 0 THEN odd ELSE steel]

\* the force on a cell: g * (x, -density)
ForceField(layout, g) ==
    [x \in 0..(MaxDim - 1), y \in 0..(MaxDim - 1) |->
        Vector2(R(g * x), RMul(R(-g), MaterialField(layout)[x, y].density))]

\* sampled contents of the evolving grids; a = 0 is the constructor's state
DisplacementField(a) ==
    [x \in 0..(MaxDim - 1), y \in 0..(MaxDim - 1) |-> Vector2(R(a * x * y), R(a * (x + 2 * y)))]
VelocityField(a) ==
    [x \in 0..(MaxDim - 1), y \in 0..(MaxDim - 1) |-> Vector2(R(a), R(a * (x - y)))]
StressField(a) ==
    [x \in 0..(MaxDim - 1), y \in 0..(MaxDim - 1) |->
        Tensor(R(a * (x + y)), R(a * (2 * y + x)), R(a * x), R(a * y))]
StrainField(a) ==
    [x \in 0..(MaxDim - 1), y \in 0..(MaxDim - 1) |-> Tensor(R(a), R(a * x), R(0), R(a * y))]

SolverShapes == {<<1, 2>>, <<2, 1>>, <<2, 2>>, <<3, 2>>, <<3, 3>>}
DtValues == {0, 2}

Init ==
    /\ \E shape \in SolverShapes, layout \in MaterialLayouts, g \in {0, 1}, a \in 0..MaxAmp :
          /\ material_dist = Grid(shape[1], shape[2], MaterialField(layout))
          /\ external_force_field = Grid(shape[1], shape[2], ForceField(layout, g))
          /\ stresses = Grid(shape[1], shape[2], StressField(a))
          /\ strains = Grid(shape[1], shape[2], StrainField(a))
          /\ displacements = Grid(shape[1], shape[2], DisplacementField(a))
          /\ velocities = Grid(shape[1], shape[2], VelocityField(a))
    /\ dx \in {R(h) : h \in DxValues}
    /\ dt \in {R(h) : h \in DtValues}
    /\ PARALLEL_PROCESS \in BOOLEAN
    /\ current_time = RZero
    /\ pc = "idle" /\ todo = <<>> /\ log = <<>> /\ err = "none"
    /\ last = NoCall /\ pre = <<>> /\ entry = <<>> /\ ops = 0
    /\ sgrid = EmptyGrid /\ tgrid = EmptyGrid /\ result = NoResult
    /\ NoDriver

Snapshot ==
    [stresses |-> stresses, strains |-> strains, displacements |-> displacements,
     velocities |-> velocities, current_time |-> current_time]

\* the phase update `name` is the next thing the program runs
CanRun(name) ==
    /\ err = "none"
    /\ \/ pc = "idle" /\ ops < MaxOps
       \/ pc = "step" /\ todo # <<>> /\ Head(todo) = name
       \/ /\ pc = "run" /\ todo # <<>> /\ Head(todo) = name
          /\ ~(PARALLEL_PROCESS /\ name \in ParallelPhases)

\* a velocity update that stores its result in the force grid
Ran_into_force_field(name, r) ==
    /\ external_force_field' = IF r.target = "velocities" THEN r.grid
                               ELSE external_force_field
    /\ strains' = IF r.target = "strains" THEN r.grid ELSE strains
    /\ displacements' = IF r.target = "displacements" THEN r.grid ELSE displacements
    /\ stresses' = IF r.target = "stresses" THEN r.grid ELSE stresses
    /\ err' = r.err
    /\ last' = [op |-> name, task |-> FALSE, r |-> range(0, 0)]
    /\ pre' = Snapshot
    /\ IF pc = "idle"
       THEN ops' = ops + 1 /\ UNCHANGED <<todo, log>>
       ELSE todo' = Tail(todo) /\ log' = Append(log, name) /\ ops' = ops
    /\ UNCHANGED <<pc, current_time, entry, velocities, material_dist, dt,
                   PARALLEL_PROCESS, dx, operatorVars, driverVars>>

\* the phase update `name` ran and returned (or raised) r
Ran(name, r) ==
    /\ velocities' = IF r.target = "velocities" THEN r.grid ELSE velocities
    /\ strains' = IF r.target = "strains" THEN r.grid ELSE strains
    /\ displacements' = IF r.target = "displacements" THEN r.grid ELSE displacements
    /\ stresses' = IF r.target = "stresses" THEN r.grid ELSE stresses
    /\ err' = r.err
    /\ last' = [op |-> name, task |-> FALSE, r |-> range(0, 0)]
    /\ pre' = Snapshot
    /\ IF pc = "idle"
       THEN ops' = ops + 1 /\ UNCHANGED <<todo, log>>
       ELSE todo' = Tail(todo) /\ log' = Append(log, name) /\ ops' = ops
    /\ UNCHANGED <<pc, current_time, entry, inputVars, dx, operatorVars, driverVars>>

UpdateU == CanRun("update_u") /\ Ran("update_u", update_u)

UpdateUDot == CanRun("update_u_dot") /\ Ran("update_u_dot", update_u_dot)

UpdateStrain == CanRun("update_strain") /\ Ran("update_strain", update_strain)

UpdateStress == CanRun("update_stress") /\ Ran("update_stress", update_stress)

\* a caller enters step()
BeginStep ==
    /\ err = "none" /\ pc = "idle" /\ ops < MaxOps
    /\ pc' = "step" /\ todo' = step_body /\ log' = <<>>
    /\ entry' = Snapshot
    /\ UNCHANGED <<current_time, err, last, pre, ops, gridVars, inputVars, dx,
                   operatorVars, driverVars>>

\* main.run enters an iteration of its step loop
BeginIteration ==
    /\ err = "none" /\ pc = "idle" /\ ops < MaxOps
    /\ pc' = "run" /\ todo' = run_body /\ log' = <<>>
    /\ entry' = Snapshot
    /\ UNCHANGED <<current_time, err, last, pre, ops, gridVars, inputVars, dx,
                   operatorVars, driverVars>>

\* the end of a step that adds the spatial step dx to the time
EndStep_adds_dx ==
    /\ err = "none" /\ pc \in {"step", "run"} /\ todo = <<>>
    /\ current_time' = RAdd(current_time, dx)
    /\ pc' = "idle" /\ ops' = ops + 1
    /\ last' = [op |-> pc, task |-> FALSE, r |-> range(0, 0)]
    /\ pre' = Snapshot
    /\ UNCHANGED <<todo, log, err, entry, gridVars, inputVars, dx, operatorVars,
                   driverVars>>

\* "self.current_time += self.dt" / "equation.current_time += equation.dt"
EndStep ==
    /\ err = "none" /\ pc \in {"step", "run"} /\ todo = <<>>
    /\ current_time' = RAdd(current_time, dt)
    /\ pc' = "idle" /\ ops' = ops + 1
    /\ last' = [op |-> pc, task |-> FALSE, r |-> range(0, 0)]
    /\ pre' = Snapshot
    /\ UNCHANGED <<todo, log, err, entry, gridVars, inputVars, dx, operatorVars,
                   driverVars>>

\* "with Pool(PROCESSES) as p": main.py binds no name Pool
DispatchPool ==
    /\ err = "none" /\ pc = "run" /\ todo # <<>>
    /\ PARALLEL_PROCESS /\ Head(todo) \in ParallelPhases
    /\ err' = "NameError"
    /\ last' = [op |-> "Pool", task |-> FALSE, r |-> range(0, 0)]
    /\ pre' = Snapshot
    /\ UNCHANGED <<pc, todo, log, current_time, entry, ops, gridVars, inputVars, dx,
                   operatorVars, driverVars>>

\* the call a pool worker makes for one element of ranges: equation.<name>(r)
TaskCall(name, r) ==
    /\ err = "none" /\ pc = "idle" /\ ops < MaxOps
    /\ err' = BindArguments(name, <<r>>)
    /\ last' = [op |-> name, task |-> TRUE, r |-> r]
    /\ pre' = Snapshot
    /\ ops' = ops + 1
    /\ UNCHANGED <<pc, todo, log, current_time, entry, gridVars, inputVars, dx,
                   operatorVars, driverVars>>

\* the ranges main.py would build for this grid and n workers
TaskRanges ==
    {range(RangeBound(j, velocities.column_end + 1, n),
           RangeBound(j + 1, velocities.column_end + 1, n)) : j \in 0..1, n \in {2}}

Next ==
    \/ UpdateU
    \/ UpdateUDot
    \/ UpdateStrain
    \/ UpdateStress
    \/ BeginStep
    \/ BeginIteration
    \/ EndStep
    \/ DispatchPool
    \/ \E name \in ParallelPhases, r \in TaskRanges : TaskCall(name, r)

Spec == Init /\ [][Next]_vars

----------------------------------------------------------------------------
(* Claims about the operators and the ranges *)

\* the payload stored at column x, row y of the scalar grid
F(x, y) == sgrid.cells[y][x].data

IsPartial(direction) ==
    result.op = "partial_derivative" /\ result.direction = direction

\* C6 (as claimed): at an interior index along the axis partial_derivative
\* returns the central difference (f[+1] - f[-1]) / (2*dx).
C6_CentralDifference ==
    /\ (IsPartial("x") /\ 0 < result.x /\ result.x < sgrid.column_end)
          => (result.err = "none"
              /\ result.val = RDiv(RSub(F(result.x + 1, result.y), F(result.x - 1, result.y)),
                                   RMul(R(2), dx)))
    /\ (IsPartial("y") /\ 0 < result.y /\ result.y < sgrid.row_end)
          => (result.err = "none"
              /\ result.val = RDiv(RSub(F(result.x, result.y + 1), F(result.x, result.y - 1)),
                                   RMul(R(2), dx)))

\* C7: on a grid with at least two cells along the axis, partial_derivative
\* returns (f[+1] - f[0]) / dx at the first index along the axis and
\* (f[0] - f[-1]) / dx at the last index, for axis 'x' and for axis 'y'.
C7_OneSidedAtEdges ==
    /\ (IsPartial("x") /\ sgrid.column_end >= 1 /\ result.x = 0)
          => (result.err = "none"
              /\ result.val = RDiv(RSub(F(1, result.y), F(0, result.y)), dx))
    /\ (IsPartial("x") /\ sgrid.column_end >= 1 /\ result.x = sgrid.column_end)
          => (result.err = "none"
              /\ result.val = RDiv(RSub(F(result.x, result.y), F(result.x - 1, result.y)), dx))
    /\ (IsPartial("y") /\ sgrid.row_end >= 1 /\ result.y = 0)
          => (result.err = "none"
              /\ result.val = RDiv(RSub(F(result.x, 1), F(result.x, 0)), dx))
    /\ (IsPartial("y") /\ sgrid.row_end >= 1 /\ result.y = sgrid.row_end)
          => (result.err = "none"
              /\ result.val = RDiv(RSub(F(result.x, result.y), F(result.x, result.y - 1)), dx))

\* a backward difference taken at the last column of a non-square grid,
\* with dx = 2 and a nonzero quotient
C7_Witness ==
    /\ IsPartial("x")
    /\ sgrid.column_end = 2 /\ sgrid.row_end = 1
    /\ result.x = sgrid.column_end
    /\ dx = R(2)
    /\ result.err = "none"
    /\ result.val = Rat(1, 2)

\* the field of first rows (xx, xy) or of second rows (yx, yy) of tgrid
RowGrid(part) ==
    Grid(tgrid.column_end + 1, tgrid.row_end + 1,
         [x \in 0..tgrid.column_end, y \in 0..tgrid.row_end |->
             IF part = "x"
             THEN Vector2(tgrid.cells[y][x].data.xx, tgrid.cells[y][x].data.xy)
             ELSE Vector2(tgrid.cells[y][x].data.yx, tgrid.cells[y][x].data.yy)])

\* C8 (as claimed): tensor_divergence returns (div(row_x), div(row_y)) with
\* row_x = (xx, xy) and row_y = (yx, yy), also for non-symmetric tensors.
C8_RowDivergence ==
    (result.op = "tensor_divergence" /\ result.err = "none")
        => result.val = Vector2(vector_divergence(RowGrid("x"), dx, result.x, result.y).val,
                                vector_divergence(RowGrid("y"), dx, result.x, result.y).val)

\* C9: the N ranges built by the driver are contiguous, pairwise disjoint and
\* cover [0, W): every column index belongs to exactly one range.
C9_Partition ==
    Len(ranges) = processes =>
        /\ \A k \in 1..Len(ranges) :
              /\ 0 <= ranges[k].start /\ ranges[k].start <= ranges[k].stop
              /\ ranges[k].stop <= cells_wide
        /\ \A k \in 1..(Len(ranges) - 1) : ranges[k].stop = ranges[k + 1].start
        /\ \A c \in 0..(cells_wide - 1) :
              Cardinality({k \in 1..Len(ranges) : InRange(c, ranges[k])}) = 1

\* all ranges built, of uneven widths
C9_Witness ==
    /\ processes >= 2
    /\ Len(ranges) = processes
    /\ cells_wide % processes # 0
    /\ \E k \in 1..Len(ranges) :
          ranges[k].stop - ranges[k].start # ranges[1].stop - ranges[1].start

----------------------------------------------------------------------------
(* Claims about the phases of LinearElasticityPDE and their callers *)

\* the payload stored at column x, row y of a solver grid
At(grid, x, y) == grid.cells[y][x].data

\* the (column, row) pairs of the solver's grids
Cells == (0..velocities.column_end) \X (0..velocities.row_end)

\* a direct call of the phase `name` (not a pool task) has returned
Returned(name) == last.op = name /\ ~last.task /\ err = "none"

\* C1 (as claimed): after update_u every cell satisfies
\* displacement' = displacement + velocity*dt and the velocity grid is unchanged.
C1_DisplacementUpdate ==
    Returned("update_u") =>
        /\ velocities = pre.velocities
        /\ \A c \in Cells :
              At(displacements, c[1], c[2])
                  = VAdd(At(pre.displacements, c[1], c[2]),
                         VScale(At(pre.velocities, c[1], c[2]), dt))

\* 2*mu*eps + lambda*tr(eps)*I with lambda = K - (2/3)*mu
Hooke(eps, m) ==
    TAdd(TScale(eps, RMul(R(2), m.shear_modulus)),
         TScale(identity,
                RMul(RSub(m.bulk_modulus, RMul(Rat(2, 3), m.shear_modulus)), trace(eps))))

\* C2 (as claimed): after update_stress every cell of the stress grid holds
\* 2*mu*eps + lambda*tr(eps)*I for the cell's material and strain (the strain
\* stored for the cell, or the strain of the displacement field there), and
\* the strain grid is unchanged.
C2_StressUpdate ==
    Returned("update_stress") =>
        /\ strains = pre.strains
        /\ \A c \in Cells :
              \/ At(stresses, c[1], c[2])
                    = Hooke(At(pre.strains, c[1], c[2]), At(material_dist, c[1], c[2]))
              \/ At(stresses, c[1], c[2])
                    = Hooke(get_strain(c[1], c[2]).val, At(material_dist, c[1], c[2]))

\* the order of the phases: displacement, velocity, strain, stress
PhaseOrder == <<"update_u", "update_u_dot", "update_strain", "update_stress">>

\* C3 (as claimed): inside step() and inside an iteration of main.run's loop
\* the phases run so far are the first ones of displacement update, velocity
\* update, strain update, stress update, in that order.
C3_PhaseOrder ==
    pc \in {"step", "run"} =>
        /\ Len(log) <= Len(PhaseOrder)
        /\ log = SubSeq(PhaseOrder, 1, Len(log))

\* (tensor_divergence(stress, dx, x, y) + externalForce(x, y)) / density(x, y),
\* on the stress grid as it was before update_u_dot
ForceOverDensity(x, y) ==
    Vector2(RDiv(RAdd(tensor_divergence(pre.stresses, dx, x, y).val.x,
                      At(external_force_field, x, y).x),
                 At(material_dist, x, y).density),
            RDiv(RAdd(tensor_divergence(pre.stresses, dx, x, y).val.y,
                      At(external_force_field, x, y).y),
                 At(material_dist, x, y).density))

\* the grids update_u_dot must leave alone are as they were
VelocityUpdateFrame ==
    /\ stresses = pre.stresses
    /\ displacements = pre.displacements
    /\ strains = pre.strains

\* C4 (as claimed): after update_u_dot every cell satisfies
\* velocity' = velocity + a*dt with a = (tensor_divergence(stress) + force) / density
\* where density > 0 and a = (0, 0) for every other density; the stress,
\* displacement and strain grids are unchanged.
C4_VelocityUpdate ==
    Returned("update_u_dot") =>
        /\ VelocityUpdateFrame
        /\ \A c \in Cells :
              At(velocities, c[1], c[2])
                  = VAdd(At(pre.velocities, c[1], c[2]),
                         VScale(IF At(material_dist, c[1], c[2]).density.n > 0
                                THEN ForceOverDensity(c[1], c[2]) ELSE VZero, dt))

\* C4 (amended): after update_u_dot every cell satisfies
\* velocity' = velocity + a*dt with a = (tensor_divergence(stress) + force) / density
\* where density is not zero (negative densities included) and a = (0, 0)
\* where density is zero; the stress, displacement and strain grids are
\* unchanged; update_u_dot returns on every grid with at least two columns
\* and two rows.
C4_VelocityUpdateNonzeroDensity ==
    (last.op = "update_u_dot" /\ ~last.task) =>
        /\ (velocities.column_end >= 1 /\ velocities.row_end >= 1) => err = "none"
        /\ VelocityUpdateFrame
        /\ err = "none" =>
              \A c \in Cells :
                  At(velocities, c[1], c[2])
                      = VAdd(At(pre.velocities, c[1], c[2]),
                             VScale(IF At(material_dist, c[1], c[2]).density # RZero
                                    THEN ForceOverDensity(c[1], c[2]) ELSE VZero, dt))

\* update_u_dot has returned with dt = 2 on a grid holding a cell of zero
\* density whose velocity kept its nonzero value, and a cell of positive
\* and a cell of negative density whose velocities changed
C4_Witness ==
    /\ Returned("update_u_dot")
    /\ dt = R(2)
    /\ \E c \in Cells :
          /\ At(material_dist, c[1], c[2]).density = RZero
          /\ At(velocities, c[1], c[2]) # VZero
          /\ At(velocities, c[1], c[2]) = At(pre.velocities, c[1], c[2])
    /\ \E c \in Cells :
          /\ At(material_dist, c[1], c[2]).density.n > 0
          /\ At(velocities, c[1], c[2]) # At(pre.velocities, c[1], c[2])
    /\ \E c \in Cells :
          /\ At(material_dist, c[1], c[2]).density.n < 0
          /\ At(velocities, c[1], c[2]) # At(pre.velocities, c[1], c[2])

\* the gradient of the displacement field at (x, y)
G(x, y) == vector_gradient(displacements, dx, x, y).val

\* C5: after update_strain every strain cell equals 0.5*(G + transpose(G))
\* with G = vector_gradient(displacement, dx, x, y), so strain.xy = strain.yx,
\* and the displacement grid is unchanged; update_strain returns on every
\* grid with at least two columns and two rows.
C5_StrainUpdate ==
    (last.op = "update_strain" /\ ~last.task) =>
        /\ (velocities.column_end >= 1 /\ velocities.row_end >= 1) => err = "none"
        /\ displacements = pre.displacements
        /\ err = "none" =>
              \A c \in Cells :
                  /\ At(strains, c[1], c[2]).xx = G(c[1], c[2]).xx
                  /\ At(strains, c[1], c[2]).yy = G(c[1], c[2]).yy
                  /\ At(strains, c[1], c[2]).xy
                        = RDiv(RAdd(G(c[1], c[2]).xy, G(c[1], c[2]).yx), R(2))
                  /\ At(strains, c[1], c[2]).yx = At(strains, c[1], c[2]).xy

\* update_strain has returned on a 3x2 grid where the gradient of the
\* displacement is not symmetric and the strain grid has changed
C5_Witness ==
    /\ Returned("update_strain")
    /\ velocities.column_end = 2 /\ velocities.row_end = 1
    /\ strains # pre.strains
    /\ \E c \in Cells : G(c[1], c[2]).xy # G(c[1], c[2]).yx

\* C10 (as claimed): a pool task running update_u_dot or update_strain for its
\* column range completes without error and leaves every cell of the target
\* grid outside that range unchanged.
C10_TaskWritesOwnColumns ==
    last.task =>
        /\ err = "none"
        /\ \A c \in Cells :
              ~InRange(c[1], last.r) =>
                  /\ At(velocities, c[1], c[2]) = At(pre.velocities, c[1], c[2])
                  /\ At(strains, c[1], c[2]) = At(pre.strains, c[1], c[2])

\* C11 (as claimed, in the part one run of the driver decides): on a grid the
\* serial path steps without error (at least two columns and two rows), the
\* parallel path of main.run's loop yields the grids the serial path yields,
\* so an iteration on the parallel path raises no exception.
C11_ParallelPathCompletes ==
    (pc = "run" /\ PARALLEL_PROCESS
        /\ velocities.column_end >= 1 /\ velocities.row_end >= 1) => err = "none"

----------------------------------------------------------------------------
(* Specification SpecOrder: the loop of a phase update, its cells visited   *)
(* in any order; every visit reads the grids as the visits before left them *)

OrderShapes == {<<1, 2>>, <<2, 1>>, <<2, 2>>, <<3, 2>>}

InitOrder ==
    /\ Init
    /\ <<velocities.column_end + 1, velocities.row_end + 1>> \in OrderShapes
    /\ ~PARALLEL_PROCESS

Phases == {"update_u", "update_u_dot", "update_strain", "update_stress"}

\* the grid the loop of the phase iterates over and writes
LoopGrid(name) ==
    IF name \in {"update_u", "update_u_dot"} THEN velocities ELSE strains

\* the body of the loop of the phase for the cell at cells[p[1]][p[2]]:
\* the payload it assigns (or the exception it raises), on the current grids
LoopBody(name, p) ==
    IF name = "update_u"
    THEN AddScaled(velocities.cells[p[1]][p[2]].data,
                   Ok(get_u_dot(velocities.cells[p[1]][p[2]].x,
                                velocities.cells[p[1]][p[2]].y)), dt)
    ELSE IF name = "update_u_dot"
    THEN AddScaled(velocities.cells[p[1]][p[2]].data,
                   get_u_double_dot(velocities.cells[p[1]][p[2]].x,
                                    velocities.cells[p[1]][p[2]].y), dt)
    ELSE IF name = "update_strain"
    THEN get_strain(strains.cells[p[1]][p[2]].x, strains.cells[p[1]][p[2]].y)
    ELSE get_stress(strains.cells[p[1]][p[2]].x, strains.cells[p[1]][p[2]].y)

\* what the whole loop of the phase leaves, its cells visited in the code's order
Outcome(name) ==
    IF name = "update_u" THEN update_u
    ELSE IF name = "update_u_dot" THEN update_u_dot
    ELSE IF name = "update_strain" THEN update_strain
    ELSE update_stress

\* grid with the payload of cells[p[1]][p[2]] replaced
WithData(grid, p, data) ==
    [grid EXCEPT !.cells[p[1]][p[2]].data = data]

\* a phase update is entered; result keeps what the code's own order gives
BeginLoop(name, r) ==
    /\ pc = "idle" /\ err = "none"
    /\ pc' = "loop"
    /\ todo' = Positions(LoopGrid(name))
    /\ last' = [op |-> name, task |-> FALSE, r |-> range(0, 0)]
    /\ pre' = Snapshot
    /\ result' = [op |-> name, err |-> r.err, grid |-> r.grid]
    /\ UNCHANGED <<sgrid, tgrid, dx, driverVars, inputVars, gridVars,
                   current_time, log, err, entry, ops>>

\* one pass of the loop body, for a cell not visited yet; v is what it computed
VisitCell(p, v) ==
    /\ pc = "loop" /\ err = "none" /\ p \in todo
    /\ err' = v.err
    /\ todo' = IF v.err = "none" THEN todo \ {p} ELSE todo
    /\ velocities' = IF v.err = "none" /\ last.op \in {"update_u", "update_u_dot"}
                     THEN WithData(velocities, p, v.val) ELSE velocities
    /\ strains' = IF v.err = "none" /\ last.op \in {"update_strain", "update_stress"}
                  THEN WithData(strains, p, v.val) ELSE strains
    /\ UNCHANGED <<operatorVars, dx, driverVars, inputVars, stresses, displacements,
                   current_time, pc, log, last, pre, entry, ops>>

NextOrder ==
    \/ \E name \in Phases : BeginLoop(name, Outcome(name))
    \/ pc = "loop" /\ \E p \in todo : VisitCell(p, LoopBody(last.op, p))

SpecOrder == InitOrder /\ [][NextOrder]_vars

\* the loop of the phase has ended: every cell visited, or an exception raised
LoopEnded == pc = "loop" /\ (todo = {} \/ err # "none")

\* C12: for each phase update, whatever the order in which the cells are
\* visited, the loop ends with the same grids (and the same exception, if
\* any) as in the code's own order.
C12_OrderIndependent ==
    LoopEnded =>
        /\ err = result.err
        /\ LoopGrid(last.op) = result.grid
        /\ stresses = pre.stresses /\ displacements = pre.displacements
        /\ last.op \in {"update_u", "update_u_dot"} => strains = pre.strains
        /\ last.op \in {"update_strain", "update_stress"} => velocities = pre.velocities

\* update_u_dot has visited all the cells of a 3x2 grid and changed velocities
C12_Witness ==
    /\ LoopEnded /\ todo = {} /\ err = "none"
    /\ last.op = "update_u_dot"
    /\ velocities.column_end = 2 /\ velocities.row_end = 1
    /\ velocities # pre.velocities

----------------------------------------------------------------------------
(* Specification SpecGrid: a Grid is constructed, then queried and written *)

\* the arguments tried: extents from -1 and indices two past either edge
Extents == (-1)..MaxDim
Indices == (-2)..(MaxDim + 1)

\* Grid(columns, rows, DataCell, 'data'): every cell gets the same payload
Payload == [x \in 0..(MaxDim - 1), y \in 0..(MaxDim - 1) |-> "data"]

\* the grid is as its constructor left it
Pristine == sgrid = Grid(sgrid.column_end + 1, sgrid.row_end + 1, Payload)

InitGrid ==
    /\ sgrid = EmptyGrid /\ tgrid = EmptyGrid /\ dx = R(1)
    /\ result = NoResult
    /\ NoDriver
    /\ NoSolver

\* Grid(columns, rows, DataCell, 'data')
Construct(columns, rows) ==
    /\ result.op = "none"
    /\ sgrid' = Grid(columns, rows, Payload)
    /\ result' = [op |-> "Grid", x |-> columns, y |-> rows, err |-> "none",
                  val |-> None, before |-> sgrid]
    /\ UNCHANGED <<tgrid, dx, driverVars, solverVars>>

\* grid.get_cell(x, y); r is what the call returned or raised
CallGetCell(x, y, r) ==
    /\ result.op # "none"
    /\ result' = [op |-> "get_cell", x |-> x, y |-> y, err |-> r.err,
                  val |-> r.val, before |-> sgrid]
    /\ UNCHANGED <<sgrid, tgrid, dx, driverVars, solverVars>>

\* grid.replace_cell(x, y, DataCell((x, y), 'new')), on a grid not written yet
CallReplaceCell(x, y, r) ==
    /\ result.op # "none" /\ Pristine
    /\ sgrid' = IF r.err = "none" THEN r.val ELSE sgrid
    /\ result' = [op |-> "replace_cell", x |-> x, y |-> y, err |-> r.err,
                  val |-> DataCell(x, y, "new"), before |-> sgrid]
    /\ UNCHANGED <<tgrid, dx, driverVars, solverVars>>

\* grid.get_neighbors(x, y) for an in-bounds (x, y)
CallGetNeighbors(x, y) ==
    /\ result.op # "none"
    /\ result' = [op |-> "get_neighbors", x |-> x, y |-> y, err |-> "none",
                  val |-> get_neighbors(sgrid, x, y), before |-> sgrid]
    /\ UNCHANGED <<sgrid, tgrid, dx, driverVars, solverVars>>

NextGrid ==
    \/ \E columns \in Extents, rows \in Extents : Construct(columns, rows)
    \/ \E x \in Indices, y \in Indices : CallGetCell(x, y, get_cell_call(sgrid, x, y))
    \/ \E x \in Indices, y \in Indices :
          CallReplaceCell(x, y, replace_cell(sgrid, x, y, DataCell(x, y, "new")))
    \/ \E x \in 0..sgrid.column_end, y \in 0..sgrid.row_end : CallGetNeighbors(x, y)

SpecGrid == InitGrid /\ [][NextGrid]_vars

\* (x, y) names a column and a row of the grid
InBounds(grid, x, y) ==
    0 <= x /\ x <= grid.column_end /\ 0 <= y /\ y <= grid.row_end

\* C13 (as claimed): constructing a Grid with columns <= 0 or rows <= 0 fails
\* with an error, and no grid of empty or negative extent is produced.
C13_ConstructionRejectsEmptyExtent ==
    (result.op = "Grid" /\ (result.x <= 0 \/ result.y <= 0)) =>
        /\ result.err # "none"
        /\ sgrid = result.before

\* C14: on a grid with at least one column and one row, get_cell(x, y) returns
\* the cell stored at column x, row y (the cell built for position (x, y), on
\* a grid as constructed) when 0 <= x < columns and 0 <= y < rows, and returns
\* None without raising, and without wrapping a negative index, otherwise.
C14_GetCell ==
    (result.op = "get_cell" /\ sgrid.column_end >= 0 /\ sgrid.row_end >= 0) =>
        /\ result.err = "none"
        /\ InBounds(sgrid, result.x, result.y) =>
              /\ result.val = sgrid.cells[result.y][result.x]
              /\ Pristine => (result.val.x = result.x /\ result.val.y = result.y)
        /\ ~InBounds(sgrid, result.x, result.y) => result.val = None

\* get_cell(-1, 1) has returned None on a grid of 2 columns and 3 rows
C14_Witness ==
    /\ result.op = "get_cell"
    /\ sgrid.column_end = 1 /\ sgrid.row_end = 2
    /\ result.x = -1 /\ result.y = 1
    /\ result.err = "none" /\ result.val = None

\* C15 (as claimed): after replace_cell(x, y, c) with (x, y) in bounds,
\* get_cell(x, y) returns c and get_cell at every other in-bounds position
\* returns what it returned before.
C15_ReplaceGetRoundTrip ==
    (result.op = "replace_cell" /\ InBounds(result.before, result.x, result.y)) =>
        /\ result.err = "none"
        /\ get_cell(sgrid, result.x, result.y) = result.val
        /\ \A x \in 0..sgrid.column_end, y \in 0..sgrid.row_end :
              <<x, y>> # <<result.x, result.y>>
                  => get_cell(sgrid, x, y) = get_cell(result.before, x, y)

\* C16 (as claimed): replace_cell(x, y, cell) with (x, y) out of bounds,
\* negative indices included, fails with an error and changes no cell.
C16_ReplaceOutOfBoundsFails ==
    (result.op = "replace_cell" /\ ~InBounds(result.before, result.x, result.y)) =>
        /\ result.err # "none"
        /\ sgrid = result.before

\* C17: for an in-bounds (x, y), get_neighbors(x, y) returns a 3x3 grid W with
\* W.get_cell(i, j) the source's cell at (x+i-1, y+j-1) where that position is
\* in the source grid and None where it is not; the source is not modified.
C17_NeighborWindow ==
    result.op = "get_neighbors" =>
        /\ result.err = "none"
        /\ result.val.column_end = 2 /\ result.val.row_end = 2
        /\ sgrid = result.before
        /\ \A i \in 0..2, j \in 0..2 :
              get_cell(result.val, i, j)
                  = IF InBounds(sgrid, result.x + i - 1, result.y + j - 1)
                    THEN sgrid.cells[result.y + j - 1][result.x + i - 1]
                    ELSE None

\* the window of the corner (0, 1) of a grid of 2 columns and 3 rows: its
\* left column is absent and (1, 0), (1, 2) of the source sit at (2, 0), (2, 2)
C17_Witness ==
    /\ result.op = "get_neighbors"
    /\ sgrid.column_end = 1 /\ sgrid.row_end = 2 /\ Pristine
    /\ result.x = 0 /\ result.y = 1
    /\ get_cell(result.val, 0, 1) = None
    /\ get_cell(result.val, 2, 0) = DataCell(1, 0, "data")
    /\ get_cell(result.val, 2, 2) = DataCell(1, 2, "data")

----------------------------------------------------------------------------
(* Specification SpecTensor: StressTensor.from_matrix, in diffequations.py *)
(* and in the prototype engine polyengine.py                               *)

\* StressTensor.__init__: super().__init__(xx, xy, xy, yy)
StressTensor(xx, xy, yy) == Tensor(xx, xy, xy, yy)

\* from_matrix without the test of symmetry
from_matrix_unchecked(m) == Ok(StressTensor(m.xx, m.xy, m.yy))

\* diffequations.py: StressTensor.from_matrix
from_matrix(m) ==
    IF m.xy # m.yx THEN Raise("ValueError")
    ELSE Ok(StressTensor(m.xx, m.xy, m.yy))

\* polyengine.py: StressTensor.from_matrix, on a Matrix
polyengine_from_matrix(m) ==
    IF m.xy # m.yx THEN Raise("ValueError")
    ELSE Ok(StressTensor(m.xx, m.xy, m.yy))

\* the matrices tried: components in 0..MaxVal
Matrices ==
    {Tensor(R(a), R(b), R(c), R(d)) : a \in 0..MaxVal, b \in 0..MaxVal,
                                      c \in 0..MaxVal, d \in 0..MaxVal}

InitTensor ==
    /\ sgrid = EmptyGrid /\ tgrid = EmptyGrid /\ dx = R(1)
    /\ result = NoResult
    /\ NoDriver
    /\ NoSolver

\* StressTensor.from_matrix(m) of the named module; r is what it returned or raised
CallFromMatrix(module, m, r) ==
    /\ result' = [op |-> "from_matrix", module |-> module, m |-> m,
                  err |-> r.err, val |-> r.val]
    /\ UNCHANGED <<sgrid, tgrid, dx, driverVars, solverVars>>

NextTensor ==
    \/ \E m \in Matrices : CallFromMatrix("diffequations", m, from_matrix(m))
    \/ \E m \in Matrices : CallFromMatrix("polyengine", m, polyengine_from_matrix(m))

SpecTensor == InitTensor /\ [][NextTensor]_vars

\* C18: in both modules from_matrix(m) succeeds if and only if m.xy = m.yx;
\* when it succeeds the result has xx = m.xx, xy = yx = m.xy, yy = m.yy, and
\* when m.xy # m.yx it raises and returns no tensor.
C18_FromMatrix ==
    result.op = "from_matrix" =>
        /\ result.err = "none" <=> result.m.xy = result.m.yx
        /\ result.err = "none" =>
              /\ result.val.xx = result.m.xx /\ result.val.yy = result.m.yy
              /\ result.val.xy = result.m.xy /\ result.val.yx = result.m.xy
        /\ result.err # "none" =>
              result.err = "ValueError" /\ result.val = Raise("ValueError").val

\* from_matrix of diffequations.py has refused a matrix with xy # yx and xx # yy
C18_Witness ==
    /\ result.op = "from_matrix"
    /\ result.m.xy # result.m.yx
    /\ result.m.xx # result.m.yy
    /\ result.err = "ValueError"
    /\ result.module = "diffequations"

----------------------------------------------------------------------------
(* Specification SpecQuery: the point queries of LinearElasticityPDE, *)
(* called inside and outside the grid                                  *)

\* <grid>.get_cell(i, j).data: get_cell returns None outside the grid
DataOf(cell) == IF cell = None THEN Raise("AttributeError") ELSE Ok(cell.data)

Queries == {"get_material", "get_external_force", "get_u_dot", "get_u_double_dot"}

\* the call self.<name>(i, j); get_u_double_dot starts with get_material(i, j).density
point_query(name, i, j) ==
    IF name = "get_material" THEN DataOf(get_cell(material_dist, i, j))
    ELSE IF name = "get_external_force" THEN DataOf(get_cell(external_force_field, i, j))
    ELSE IF name = "get_u_dot" THEN DataOf(get_cell(velocities, i, j))
    ELSE IF get_cell(material_dist, i, j) = None THEN Raise("AttributeError")
    ELSE get_u_double_dot(i, j)

\* the queries read neither dt nor the driver's flag
InitQuery == Init /\ dt = R(0) /\ ~PARALLEL_PROCESS

\* one query, made on the solver as set up (the queries change no state)
CallPointQuery(name, i, j, r) ==
    /\ result.op = "none"
    /\ result' = [op |-> name, x |-> i, y |-> j, err |-> r.err, val |-> r.val]
    /\ UNCHANGED <<sgrid, tgrid, dx, driverVars, solverVars>>

NextQuery ==
    \E name \in Queries, i \in (-1)..MaxDim, j \in (-1)..MaxDim :
        CallPointQuery(name, i, j, point_query(name, i, j))

SpecQuery == InitQuery /\ [][NextQuery]_vars

\* C19 (as claimed): get_material, get_external_force, get_u_dot and
\* get_u_double_dot called with (i, j) outside the grid return an absent
\* value and raise no error.
C19_QueriesOutOfBounds ==
    (result.op \in Queries /\ ~InBounds(velocities, result.x, result.y)) =>
        /\ result.err = "none"
        /\ result.val = None

----------------------------------------------------------------------------
(* Specification SpecScenarioA: a solver at rest on a 3x3 grid of one       *)
(* material of density 1, without external force, stepped by its callers   *)

\* the same payload in every cell
Uniform(d) == [x \in 0..(MaxDim - 1), y \in 0..(MaxDim - 1) |-> d]

InitScenarioA ==
    /\ \E bulk \in 1..MaxVal, shear \in 0..MaxVal :
          material_dist = Grid(3, 3, Uniform(Material(R(1), R(0), R(bulk), R(shear))))
    /\ external_force_field = Grid(3, 3, Uniform(VZero))
    /\ stresses = Grid(3, 3, Uniform(zero))
    /\ strains = Grid(3, 3, Uniform(zero))
    /\ displacements = Grid(3, 3, Uniform(VZero))
    /\ velocities = Grid(3, 3, Uniform(VZero))
    /\ dx \in {R(h) : h \in DxValues}
    /\ dt \in {R(h) : h \in DtValues}
    /\ PARALLEL_PROCESS \in BOOLEAN
    /\ current_time = RZero
    /\ pc = "idle" /\ todo = <<>> /\ log = <<>> /\ err = "none"
    /\ last = NoCall /\ pre = <<>> /\ entry = <<>> /\ ops = 0
    /\ sgrid = EmptyGrid /\ tgrid = EmptyGrid /\ result = NoResult
    /\ NoDriver

SpecScenarioA == InitScenarioA /\ [][Next]_vars

\* every cell of the four evolving grids is zero
AllZero ==
    \A c \in Cells :
        /\ At(displacements, c[1], c[2]) = VZero
        /\ At(velocities, c[1], c[2]) = VZero
        /\ At(strains, c[1], c[2]) = zero
        /\ At(stresses, c[1], c[2]) = zero

\* C20: from the state of Scenario A (3x3 grid, one material of density 1, no
\* external force, zero displacement and velocity) every cell of the
\* displacement, velocity, strain and stress grids is zero after each phase
\* and after the step, through step() and through the driver's loop.
C20_ScenarioAStaysZero ==
    /\ velocities.column_end = 2 /\ velocities.row_end = 2
    /\ AllZero

\* a step() with dt = 2 and nonzero moduli has completed without error
C20_Witness ==
    /\ pc = "idle" /\ last.op = "step" /\ err = "none"
    /\ log = step_body
    /\ dt = R(2) /\ current_time = R(2)
    /\ At(material_dist, 1, 1).density = R(1)
    /\ At(material_dist, 1, 1).shear_modulus = R(1)
    /\ AllZero

----------------------------------------------------------------------------
(* Claims about whole steps: time, frames, barriers *)

\* a step() or an iteration of the driver's loop has just completed
StepDone == pc = "idle" /\ last.op \in {"step", "run"} /\ err = "none"

\* the grids named in `names` are as they were when the step was entered
SameAsEntry(names) ==
    /\ "displacements" \in names => displacements = entry.displacements
    /\ "velocities" \in names => velocities = entry.velocities
    /\ "strains" \in names => strains = entry.strains
    /\ "stresses" \in names => stresses = entry.stresses

\* the step was entered with every cell of the given grid zero
ZeroVectors(grid) == \A c \in Cells : At(grid, c[1], c[2]) = VZero
ZeroTensors(grid) == \A c \in Cells : At(grid, c[1], c[2]) = zero

----------------------------------------------------------------------------
(* Claims about the stencil at the edges and about construction *)

\* C24 (as claimed): on every grid of at least one column and one row, one cell
\* wide along the axis included, partial_derivative along x or along y at an
\* in-bounds cell returns a value: it raises nothing, so it dereferenced no
\* absent neighbour.
C24_NoAbsentNeighbourDereferenced ==
    (IsPartial("x") \/ IsPartial("y")) => result.err = "none"

----------------------------------------------------------------------------
(* Specification SpecObjects: Grid.__init__ run statement by statement on   *)
(* objects.  Here sgrid is the Grid as a graph of objects: sgrid.cells is   *)
(* the outer list, a sequence of references to row lists; sgrid.lists maps  *)
(* the identity of a row list to its slots, references to cells;            *)
(* sgrid.objs maps the identity of a cell to its position; sgrid.next is    *)
(* the identity the next new object gets.  todo is what is left of          *)
(* "for i in range(rows): for j in range(columns)".                         *)

ObjectExtents == 0..(MaxDim + 1)

\* range(rows) x range(columns) in the order of the two nested loops
LoopPositions(columns, rows) ==
    [k \in 1..(rows * columns) |-> <<(k - 1) \div columns, (k - 1) % columns>>]

\* "[[Cell([0, 0])] * columns] * rows": one cell, one row list holding it
\* `columns` times, and an outer list holding that row list `rows` times
InitialCells(columns, rows) ==
    [cells |-> [i \in 0..(rows - 1) |-> 1],
     lists |-> (1 :> [j \in 0..(columns - 1) |-> 0]),
     objs |-> (0 :> [x |-> 0, y |-> 0]),
     next |-> 2,
     row_end |-> rows - 1,
     column_end |-> columns - 1]

\* "cell_cls((j, i), ...)": a new cell whose position is (j, i)
NewCell(h, j, i) ==
    [h EXCEPT !.objs = h.objs @@ (h.next :> [x |-> j, y |-> i]), !.next = h.next + 1]

\* replace_cell writing into the list it finds, no copy made
replace_cell_obj_in_place(h, column, row, cell) ==
    [h EXCEPT !.lists[h.cells[column]][row] = cell]

\* replace_cell on objects: r = copy.copy(self.cells[column]) is a new list with
\* the same slots; r[row] = cell; self.cells[column] = r
replace_cell_obj(h, column, row, cell) ==
    [h EXCEPT !.lists = h.lists @@
                  (h.next :> [h.lists[h.cells[column]] EXCEPT ![row] = cell]),
              !.cells[column] = h.next,
              !.next = h.next + 1]

InitObjects ==
    /\ sgrid = EmptyGrid /\ tgrid = EmptyGrid /\ dx = R(1)
    /\ result = NoResult
    /\ NoDriver
    /\ NoSolver

\* Grid(columns, rows, DataCell, ...) up to the loop
EnterInit(columns, rows) ==
    /\ pc = "idle"
    /\ pc' = "__init__"
    /\ sgrid' = InitialCells(columns, rows)
    /\ todo' = LoopPositions(columns, rows)
    /\ UNCHANGED <<tgrid, result, dx, driverVars, inputVars, gridVars, current_time,
                   log, err, last, pre, entry, ops>>

\* one pass of the loop body, or the return when the loop is over
LoopPass ==
    /\ pc = "__init__"
    /\ IF todo = <<>>
       THEN pc' = "built" /\ UNCHANGED <<sgrid, todo>>
       ELSE /\ sgrid' = replace_cell_obj(NewCell(sgrid, Head(todo)[2], Head(todo)[1]),
                                         Head(todo)[1], Head(todo)[2], sgrid.next)
            /\ todo' = Tail(todo)
            /\ pc' = pc
    /\ UNCHANGED <<tgrid, result, dx, driverVars, inputVars, gridVars, current_time,
                   log, err, last, pre, entry, ops>>

NextObjects ==
    \/ \E columns \in ObjectExtents, rows \in ObjectExtents : EnterInit(columns, rows)
    \/ LoopPass

SpecObjects == InitObjects /\ [][NextObjects]_vars

\* the cell object the built grid holds at column x, row y
CellAt(x, y) == sgrid.lists[sgrid.cells[y]][x]

InGrid == (0..sgrid.column_end) \X (0..sgrid.row_end)

\* C25: when Grid(columns, rows, ...) returns, columns >= 1 and rows >= 1,
\* each position (x, y) of the grid holds a cell whose stored coordinates are
\* (x, y); different positions hold different cell objects, different rows
\* are different list objects; column_end = columns - 1, row_end = rows - 1.
C25_GridInvariant ==
    (pc = "built" /\ sgrid.column_end >= 0 /\ sgrid.row_end >= 0) =>
        /\ DOMAIN sgrid.cells = 0..sgrid.row_end
        /\ \A y \in 0..sgrid.row_end :
              DOMAIN sgrid.lists[sgrid.cells[y]] = 0..sgrid.column_end
        /\ \A p \in InGrid : sgrid.objs[CellAt(p[1], p[2])] = [x |-> p[1], y |-> p[2]]
        /\ \A p \in InGrid, q \in InGrid :
              p # q => CellAt(p[1], p[2]) # CellAt(q[1], q[2])
        /\ \A y \in 0..sgrid.row_end, z \in 0..sgrid.row_end :
              y # z => sgrid.cells[y] # sgrid.cells[z]

\* a grid of 2 columns and 3 rows has been built
C25_Witness ==
    /\ pc = "built" /\ sgrid.column_end = 1 /\ sgrid.row_end = 2
    /\ sgrid.objs[CellAt(1, 2)] = [x |-> 1, y |-> 2]

----------------------------------------------------------------------------
(* Claims about the inputs of the solver and about void cells *)

\* C26: no phase update, no step (its point queries included) and no task call
\* changes the material grid or the external-force grid: every cell of both
\* holds the payload it was constructed with.
C26_InputsReadOnly ==
    [][material_dist' = material_dist
        /\ external_force_field' = external_force_field]_vars

\* a step with dt = 2 has completed on a steel grid under a nonzero force and
\* has changed the velocities
C26_Witness ==
    /\ StepDone /\ dt = R(2)
    /\ At(material_dist, 0, 0) = steel
    /\ At(external_force_field, 1, 1) # VZero
    /\ velocities # entry.velocities

\* Specification SpecVoid: a solver as its constructor leaves it (zero
\* displacements, velocities and strains) on sampled material and force grids,
\* its stress grid given sampled content, under the callers of Spec
InitVoid ==
    /\ \E shape \in SolverShapes, layout \in MaterialLayouts, g \in {0, 1}, a \in 0..MaxAmp :
          /\ material_dist = Grid(shape[1], shape[2], MaterialField(layout))
          /\ external_force_field = Grid(shape[1], shape[2], ForceField(layout, g))
          /\ stresses = Grid(shape[1], shape[2], StressField(a))
          /\ strains = Grid(shape[1], shape[2], StrainField(0))
          /\ displacements = Grid(shape[1], shape[2], DisplacementField(0))
          /\ velocities = Grid(shape[1], shape[2], VelocityField(0))
    /\ dx \in {R(h) : h \in DxValues}
    /\ dt \in {R(h) : h \in DtValues}
    /\ PARALLEL_PROCESS \in BOOLEAN
    /\ current_time = RZero
    /\ pc = "idle" /\ todo = <<>> /\ log = <<>> /\ err = "none"
    /\ last = NoCall /\ pre = <<>> /\ entry = <<>> /\ ops = 0
    /\ sgrid = EmptyGrid /\ tgrid = EmptyGrid /\ result = NoResult
    /\ NoDriver

SpecVoid == InitVoid /\ [][Next]_vars

\* C27: from the constructor's zero velocities, whatever the force and stress
\* grids hold and whatever calls have been made, at every cell of zero density
\* get_u_double_dot returns (0, 0) (it raises nothing) and the velocity is
\* still (0, 0).
C27_VoidCellsInert ==
    \A c \in Cells :
        At(material_dist, c[1], c[2]).density = RZero =>
            /\ get_u_double_dot(c[1], c[2]) = Ok(VZero)
            /\ At(velocities, c[1], c[2]) = VZero

\* a step with dt = 2 has completed on a grid whose row 0 is void, under a
\* nonzero force on the void cell (1, 0) and with nonzero stresses; the
\* velocity of a cell that is not void has changed
C27_Witness ==
    /\ StepDone /\ dt = R(2)
    /\ At(material_dist, 1, 0).density = RZero
    /\ At(external_force_field, 1, 0) # VZero
    /\ At(stresses, 1, 0) # zero
    /\ At(velocities, 1, 1) # VZero

----------------------------------------------------------------------------
(* Specification SpecAlgebra: the arithmetic of Tensor / StressTensor in     *)
(* diffequations.py and of Matrix / StressTensor in polyengine.py.  A number *)
(* is a record with fields n, d; a Vector2 one with x, y; a Tensor or a      *)
(* Matrix one with xx, xy, yx, yy: isinstance is a test of the fields.       *)

IsNumber(v) == DOMAIN v = {"n", "d"}
IsVector2(v) == DOMAIN v = {"x", "y"}
IsTensor(v) == DOMAIN v = {"xx", "xy", "yx", "yy"}

\* Vector2.__mul__ with a Vector2: the dot product
Dot(a, b) == RAdd(RMul(a.x, b.x), RMul(a.y, b.y))

determinant(a) == RSub(RMul(a.xx, a.yy), RMul(a.xy, a.yx))

\* diffequations.py: Tensor.__mul__; falling off the last test returns None
Tensor_mul(self, other) ==
    IF IsNumber(other) THEN TScale(self, other)
    ELSE IF IsTensor(other)
    THEN Tensor(Dot(Vector2(self.xx, self.xy), Vector2(other.xx, other.yx)),
                Dot(Vector2(self.xx, self.xy), Vector2(other.xy, other.yy)),
                Dot(Vector2(self.yx, self.yy), Vector2(other.xx, other.yx)),
                Dot(Vector2(self.yx, self.yy), Vector2(other.xy, other.yy)))
    ELSE IF IsVector2(other)
    THEN Vector2(RAdd(RAdd(RMul(self.xx, other.x), self.xy), other.y),
                 RAdd(RAdd(RMul(self.yx, other.x), self.yy), other.y))
    ELSE None

\* polyengine.py: Matrix.__mul__
Matrix_mul(self, other) ==
    IF IsNumber(other) THEN TScale(self, other)
    ELSE IF IsTensor(other)
    THEN Tensor(Dot(Vector2(self.xx, self.xy), Vector2(other.xx, other.yx)),
                Dot(Vector2(self.xx, self.xy), Vector2(other.xy, other.yy)),
                Dot(Vector2(self.yx, self.yy), Vector2(other.xx, other.yx)),
                Dot(Vector2(self.yx, self.yy), Vector2(other.xy, other.yy)))
    ELSE IF IsVector2(other)
    THEN Vector2(RAdd(RAdd(RMul(self.xx, other.x), self.xy), other.y),
                 RAdd(RAdd(RMul(self.yx, other.x), self.yy), other.y))
    ELSE None

\* StressTensor.__add__ and StressTensor.__mul__ with a number (both modules)
StressTensor_add(a, b) ==
    StressTensor(RAdd(a.xx, b.xx), RAdd(a.xy, b.xy), RAdd(a.yy, b.yy))
StressTensor_scale(a, k) ==
    StressTensor(RMul(a.xx, k), RMul(a.xy, k), RMul(a.yy, k))

\* diffequations.py: what "super().identity" evaluates to inside the property
\* StressTensor.identity.  Tensor.identity is a staticmethod and is not
\* called, so the value is the function, an object without components.
super_identity == [function |-> "Tensor.identity"]

\* diffequations.py: the property StressTensor.identity; from_matrix reads m.xy
StressTensor_identity ==
    IF ~IsTensor(super_identity) THEN Raise("AttributeError")
    ELSE from_matrix(super_identity)

\* polyengine.py: the property StressTensor.identity; Matrix.identity is a
\* property, so super().identity is Matrix(1, 0, 0, 1)
polyengine_StressTensor_identity == polyengine_from_matrix(identity)

\* the property invariants (both modules)
invariants(s) ==
    <<trace(s), RSub(RMul(s.xx, s.yy), RMul(s.xy, s.xy)), determinant(s)>>

\* "self - (1/3)*self.invariants[0]*self.identity", i what self.identity gave:
\* __sub__ is self + -other and __neg__ is (-1) * other
Deviator(s, i) ==
    IF i.err # "none" THEN Raise(i.err)
    ELSE Ok(StressTensor_add(s,
                StressTensor_scale(
                    StressTensor_scale(i.val, RMul(Rat(1, 3), invariants(s)[1])),
                    R(-1))))

stress_deviator(s) == Deviator(s, StressTensor_identity)

polyengine_stress_deviator(s) == Deviator(s, polyengine_StressTensor_identity)

\* the operands tried
StressTensors ==
    {StressTensor(R(a), R(b), R(c)) : a \in 0..MaxVal, b \in 0..MaxVal, c \in 0..MaxVal}
Numbers == {R(k) : k \in (-1)..MaxVal} \cup {RHalf}
Vectors == {Vector2(R(a), R(b)) : a \in 0..MaxVal, b \in 0..MaxVal}
\* right operands of *: numbers, vectors, and tensors with xy # yx
Operands ==
    Numbers \cup Vectors
        \cup {Tensor(R(a), R(b), R(b + 1), R(a + b)) : a \in 0..MaxVal, b \in 0..MaxVal}

InitAlgebra ==
    /\ sgrid = EmptyGrid /\ tgrid = EmptyGrid /\ dx = R(1)
    /\ result = NoResult
    /\ NoDriver
    /\ NoSolver

\* s.stress_deviator in the named module; r is what it returned or raised
CallStressDeviator(module, s, r) ==
    /\ result.op = "none"
    /\ result' = [op |-> "stress_deviator", module |-> module, self |-> s,
                  err |-> r.err, val |-> r.val]
    /\ UNCHANGED <<sgrid, tgrid, dx, driverVars, solverVars>>

\* s.invariants in the named module
CallInvariants(module, s, v) ==
    /\ result.op = "none"
    /\ result' = [op |-> "invariants", module |-> module, self |-> s,
                  err |-> "none", val |-> v]
    /\ UNCHANGED <<sgrid, tgrid, dx, driverVars, solverVars>>

\* t * other in the named module
CallMul(module, t, other, v) ==
    /\ result.op = "none"
    /\ result' = [op |-> "__mul__", module |-> module, self |-> t, other |-> other,
                  err |-> "none", val |-> v]
    /\ UNCHANGED <<sgrid, tgrid, dx, driverVars, solverVars>>

NextAlgebra ==
    \/ \E s \in StressTensors : CallStressDeviator("diffequations", s, stress_deviator(s))
    \/ \E s \in StressTensors :
          CallStressDeviator("polyengine", s, polyengine_stress_deviator(s))
    \/ \E s \in StressTensors, module \in {"diffequations", "polyengine"} :
          CallInvariants(module, s, invariants(s))
    \/ \E t \in Matrices, other \in Operands :
          CallMul("diffequations", t, other, Tensor_mul(t, other))
    \/ \E t \in Matrices, other \in Operands :
          CallMul("polyengine", t, other, Matrix_mul(t, other))

SpecAlgebra == InitAlgebra /\ [][NextAlgebra]_vars

\* C28 (as claimed): in both modules s.stress_deviator returns, without error,
\* the symmetric tensor s - (trace(s)/3) * identity, and s.invariants returns
\* (trace, xx*yy - xy^2, determinant), its second and third entries equal.
C28_DeviatorAndInvariants ==
    /\ result.op = "stress_deviator" =>
          /\ result.err = "none"
          /\ result.val.xy = result.val.yx
          /\ result.val =
                Tensor(RSub(result.self.xx, RDiv(trace(result.self), R(3))),
                       result.self.xy, result.self.yx,
                       RSub(result.self.yy, RDiv(trace(result.self), R(3))))
    /\ result.op = "invariants" =>
          /\ result.val[1] = RAdd(result.self.xx, result.self.yy)
          /\ result.val[2] = RSub(RMul(result.self.xx, result.self.yy),
                                  RMul(result.self.xy, result.self.xy))
          /\ result.val[3] = RSub(RMul(result.self.xx, result.self.yy),
                                  RMul(result.self.xy, result.self.yx))
          /\ result.val[2] = result.val[3]

\* C29 (as claimed): in both modules T * k scales the four components by k,
\* T * U is the matrix product and T * v, v a Vector2, is the matrix-vector
\* product (T.xx*v.x + T.xy*v.y, T.yx*v.x + T.yy*v.y).
C29_Multiplication ==
    result.op = "__mul__" =>
        LET T == result.self
            o == result.other
        IN  /\ IsNumber(o) =>
                  result.val = Tensor(RMul(T.xx, o), RMul(T.xy, o),
                                      RMul(T.yx, o), RMul(T.yy, o))
            /\ IsTensor(o) =>
                  result.val =
                      Tensor(RAdd(RMul(T.xx, o.xx), RMul(T.xy, o.yx)),
                             RAdd(RMul(T.xx, o.xy), RMul(T.xy, o.yy)),
                             RAdd(RMul(T.yx, o.xx), RMul(T.yy, o.yx)),
                             RAdd(RMul(T.yx, o.xy), RMul(T.yy, o.yy)))
            /\ IsVector2(o) =>
                  result.val = Vector2(RAdd(RMul(T.xx, o.x), RMul(T.xy, o.y)),
                                       RAdd(RMul(T.yx, o.x), RMul(T.yy, o.y)))

====
